---- MODULE Spec2Model ----
(***************************************************************************)
(* A model of the tplinker command-line tool (src/src/main.rs): address    *)
(* parsing, the per-endpoint fan-out of `status` and `reboot`, device      *)
(* resolution by model prefix, and the tabular / JSON renderer.            *)
(*                                                                         *)
(* Text is modelled as a sequence of one-character strings, so lengths,    *)
(* prefixes, padding and joins are computed as the code computes them.     *)
(***************************************************************************)
EXTENDS Integers, Sequences, FiniteSets, TLC

VARIABLES
    command,     \* the subcommand matched in main: "status" or "reboot"
    format,      \* Format::Short | Format::Long | Format::JSON
    args,        \* the `address` argument values, in command-line order
    delayArg,    \* the text of --delay (reboot only)
    pc,          \* position of main: "start", "fanout", "done", "panicked", "idle"
    addresses,   \* Vec<SocketAddr> returned by parse_addresses
    tasks,       \* per address index: the state of its rayon closure
    stderr,      \* lines written to the error stream, in order
    stdout,      \* documents written by println!, in order
    panic,       \* the message of the panic that ended the process, or NoPanic
    rows,        \* Format::output: the argument `rows`
    rpc,         \* Format::output: position ("scan", "rows", "done", "panic", "idle")
    fields,      \* Format::output: HashMap title -> (ordering, width)
    processed,   \* Format::output: Vec<HashMap<String, String>>
    columns,     \* Format::output: the sorted Vec<(String, usize)>
    lines,       \* Format::output: Vec<String>
    resolve      \* device_from_addr on its own: its inputs, position and return value

vars == <<command, format, args, delayArg, pc, addresses, tasks, stderr, stdout,
          panic, rows, rpc, fields, processed, columns, lines, resolve>>

mainVars == <<command, args, delayArg, pc, addresses, tasks, stderr, resolve>>
renderVars == <<rows, rpc, fields, processed, columns, lines>>

-----------------------------------------------------------------------------
(* Bounds of the model. *)

\* most address arguments on one command line
MaxAddrs == 2
\* most rows handed to Format::output in the renderer specification
MaxRows == 3

-----------------------------------------------------------------------------
(* Text literals of the source. *)

L_Address == <<"A", "d", "d", "r", "e", "s", "s">>
L_Alias == <<"A", "l", "i", "a", "s">>
L_Product == <<"P", "r", "o", "d", "u", "c", "t">>
L_Model == <<"M", "o", "d", "e", "l">>
L_Signal == <<"S", "i", "g", "n", "a", "l">>
L_On == <<"O", "n", "?">>
L_MAC == <<"M", "A", "C">>
L_Type == <<"T", "y", "p", "e">>
L_Version == <<"V", "e", "r", "s", "i", "o", "n">>
L_Latitude == <<"L", "a", "t", "i", "t", "u", "d", "e">>
L_Longitude == <<"L", "o", "n", "g", "i", "t", "u", "d", "e">>
L_Mode == <<"M", "o", "d", "e">>
L_Rebooted == <<"R", "e", "b", "o", "o", "t", "e", "d", "?">>
K_addr == <<"a", "d", "d", "r">>
K_device == <<"d", "e", "v", "i", "c", "e">>
K_data == <<"d", "a", "t", "a">>
K_system == <<"s", "y", "s", "t", "e", "m">>
K_location == <<"l", "o", "c", "a", "t", "i", "o", "n">>
K_actioned == <<"a", "c", "t", "i", "o", "n", "e", "d">>
K_action == <<"a", "c", "t", "i", "o", "n">>
K_result == <<"r", "e", "s", "u", "l", "t">>
T_dB == <<" ", "d", "B">>
T_ErrorPrefix == <<"E", "r", "r", "o", "r", ":", " ">>
T_HS100 == <<"H", "S", "1", "0", "0">>
T_HS110 == <<"H", "S", "1", "1", "0">>
T_LB110 == <<"L", "B", "1", "1", "0">>
T_unknown == <<"u", "n", "k", "n", "o", "w", "n">>
T_dash == <<"-">>
T_true == <<"t", "r", "u", "e">>
T_false == <<"f", "a", "l", "s", "e">>
T_null == <<"n", "u", "l", "l">>
T_CommaSpace == <<",", " ">>
T_Sep == <<" ", "|", " ">>
T_Cross == <<"-", "+", "-">>
T_Newline == <<"\n">>
T_Space == <<" ">>

-----------------------------------------------------------------------------
(* Text helpers: what str::len, str::repeat, join, starts_with and the     *)
(* integer Display impl do.                                                *)

Digits == <<"0", "1", "2", "3", "4", "5", "6", "7", "8", "9">>

RECURSIVE Repeat(_, _)
Repeat(s, n) == IF n <= 0 THEN <<>> ELSE s \o Repeat(s, n - 1)

RECURSIVE Join(_, _)
Join(parts, sep) ==
    IF Len(parts) = 0 THEN <<>>
    ELSE IF Len(parts) = 1 THEN parts[1]
    ELSE parts[1] \o sep \o Join(Tail(parts), sep)

starts_with(s, prefix) ==
    /\ Len(prefix) <= Len(s)
    /\ SubSeq(s, 1, Len(prefix)) = prefix

RECURSIVE DecimalNat(_)
DecimalNat(n) ==
    IF n < 10 THEN <<Digits[n + 1]>>
    ELSE DecimalNat(n \div 10) \o <<Digits[(n % 10) + 1]>>

Decimal(n) == IF n < 0 THEN <<"-">> \o DecimalNat(0 - n) ELSE DecimalNat(n)

-----------------------------------------------------------------------------
(* serde_json::Value *)

VNull == [t |-> "null"]
VBool(b) == [t |-> "bool", b |-> b]
VNum(n) == [t |-> "num", n |-> n, float |-> FALSE]
VFloat(n) == [t |-> "num", n |-> n, float |-> TRUE]
VStr(s) == [t |-> "str", s |-> s]
VArr(a) == [t |-> "arr", a |-> a]
VObj(o) == [t |-> "obj", o |-> o]

None == [some |-> FALSE]
Some(x) == [some |-> TRUE, v |-> x]

NumberText(v) == Decimal(v.n) \o (IF v.float THEN <<".", "0">> ELSE <<>>)

JsonString(s) == <<"\"">> \o s \o <<"\"">>

RECURSIVE JsonStringify(_)
JsonStringify(v) ==
    CASE v.t = "null" -> T_null
      [] v.t = "bool" -> (IF v.b THEN T_true ELSE T_false)
      [] v.t = "num" -> NumberText(v)
      [] v.t = "str" -> JsonString(v.s)
      [] v.t = "arr" ->
            <<"[">> \o Join([i \in 1..Len(v.a) |-> JsonStringify(v.a[i])], <<",">>) \o <<"]">>
      [] v.t = "obj" ->
            <<"{">>
            \o Join([i \in 1..Len(v.o) |->
                        JsonString(v.o[i][1]) \o <<":">> \o JsonStringify(v.o[i][2])],
                    <<",">>)
            \o <<"}">>

RECURSIVE human_stringify(_)
human_stringify(value) ==
    CASE value.t = "null" -> T_dash
      [] value.t = "bool" -> (IF value.b THEN T_true ELSE T_false)
      [] value.t = "num" -> NumberText(value)
      [] value.t = "str" -> value.s
      [] value.t = "arr" ->
            Join([i \in 1..Len(value.a) |-> human_stringify(value.a[i])], T_CommaSpace)
      [] value.t = "obj" -> JsonStringify(value)

saturating_sub(a, b) == IF a >= b THEN a - b ELSE 0

pad(value, padding) == value \o Repeat(T_Space, saturating_sub(padding, Len(value)))

-----------------------------------------------------------------------------
(* Format::output, tabular arm: the scan of the rows (lines 123-146).      *)

EmptyMap == [k \in {} |-> k]

NoPanic == "none"

\* line 132: let order_next = fields.len()
OrderNextAlwaysZero(flds) == 0

OrderNext(flds) == Cardinality(DOMAIN flds)

\* lines 137-141: and_modify(|(_, len)| if *len < hlen { *len = hlen })
ScanFieldWidthLastWins(old, hlen) == hlen

ScanFieldWidth(old, hlen) == IF old < hlen THEN hlen ELSE old

\* One iteration of `for field in arr` (lines 130-143).

ScanField(acc, field) ==
    IF acc.panic # NoPanic THEN acc
    ELSE IF field.t # "arr"
    THEN [acc EXCEPT !.panic = "(bug) row is not an array of arrays"]
    ELSE IF Len(field.a) # 2 THEN acc
    ELSE LET key == field.a[1]
             value == field.a[2]
             order_next == OrderNext(acc.fields)
         IN IF key.t # "str"
            THEN [acc EXCEPT !.panic = "key is not a string"]
            ELSE LET k == key.s
                     h == human_stringify(value)
                     hlen == Len(h)
                 IN [fields |->
                        IF k \in DOMAIN acc.fields
                        THEN [acc.fields EXCEPT ![k].width = ScanFieldWidth(@, hlen)]
                        ELSE (k :> [order |-> order_next, width |-> hlen]) @@ acc.fields,
                     proc |-> (k :> h) @@ acc.proc,
                     panic |-> NoPanic]

RECURSIVE ScanFields(_, _, _)
ScanFields(acc, arr, i) ==
    IF i > Len(arr) THEN acc
    ELSE ScanFields(ScanField(acc, arr[i]), arr, i + 1)

\* One iteration of `for row in rows`.
ScanRow(flds, row) ==
    IF row.t # "arr"
    THEN [fields |-> flds, proc |-> EmptyMap, panic |-> "(bug) row is not an array"]
    ELSE ScanFields([fields |-> flds, proc |-> EmptyMap, panic |-> NoPanic], row.a, 1)

(* lines 148-150: collect the map into a Vec, sort by ordering, drop it.   *)
RECURSIVE SortByOrder(_, _)
SortByOrder(flds, left) ==
    IF left = {} THEN <<>>
    ELSE LET k == CHOOSE k \in left : \A j \in left : flds[k].order <= flds[j].order
         IN <<k>> \o SortByOrder(flds, left \ {k})

SortFields(flds) ==
    LET names == SortByOrder(flds, DOMAIN flds)
    IN [i \in 1..Len(names) |-> [name |-> names[i], width |-> flds[names[i]].width]]

(* lines 153-159 *)
HeaderLine(cols) ==
    T_Space
    \o Join([i \in 1..Len(cols) |-> pad(cols[i].name, cols[i].width)], T_Sep)
    \o T_Space

SeparatorLine(cols) ==
    T_dash
    \o Join([i \in 1..Len(cols) |-> Repeat(T_dash, cols[i].width)], T_Cross)
    \o T_dash

(* lines 161-165: row.get(name).unwrap() *)
RowHasAll(proc, cols) == \A i \in 1..Len(cols) : cols[i].name \in DOMAIN proc

RowLine(proc, cols) ==
    T_Space
    \o Join([i \in 1..Len(cols) |-> pad(proc[cols[i].name], cols[i].width)], T_Sep)
    \o T_Space

(* Format::output as a function of its argument: the panic it raises or    *)
(* the text it hands to println!.                                          *)
RECURSIVE ScanRows(_, _, _)
ScanRows(acc, rs, i) ==
    IF i > Len(rs) \/ acc.panic # NoPanic THEN acc
    ELSE LET r == ScanRow(acc.fields, rs[i])
         IN ScanRows([fields |-> r.fields,
                      processed |-> Append(acc.processed, r.proc),
                      panic |-> r.panic], rs, i + 1)

TableText(rs) ==
    LET scanned == ScanRows([fields |-> EmptyMap, processed |-> <<>>, panic |-> NoPanic], rs, 1)
        cols == SortFields(scanned.fields)
        procs == scanned.processed
    IN IF scanned.panic # NoPanic THEN [panic |-> scanned.panic, text |-> <<>>]
       ELSE IF \E i \in 1..Len(procs) : ~RowHasAll(procs[i], cols)
       THEN [panic |-> "unwrap on None", text |-> <<>>]
       ELSE [panic |-> NoPanic,
             text |-> Join(<<HeaderLine(cols), SeparatorLine(cols)>>
                           \o [i \in 1..Len(procs) |-> RowLine(procs[i], cols)],
                           T_Newline)]

Tabular(fmt) == fmt \in {"Short", "Long"}

output(fmt, rs) ==
    IF Tabular(fmt) THEN TableText(rs)
    ELSE [panic |-> NoPanic, text |-> JsonStringify(VArr(rs))]


\* a (title, value) pair of a row: json!([title, value])
Pair(label, value) == VArr(<<VStr(label), value>>)

-----------------------------------------------------------------------------
(* Address parsing (lines 339-345): str::parse::<SocketAddr>, then          *)
(* str::parse::<IpAddr> with the default port, else the panic of expect.   *)
(* Only the IPv4 grammar is modelled; no argument of the pool is IPv6.     *)

DefaultPort == 9999

IsDigit(c) == c \in {"0", "1", "2", "3", "4", "5", "6", "7", "8", "9"}

DigitVal(c) == (CHOOSE d \in 1..10 : Digits[d] = c) - 1

AllDigits(s) == Len(s) > 0 /\ \A i \in 1..Len(s) : IsDigit(s[i])

RECURSIVE NatOf(_)
NatOf(s) ==
    IF Len(s) = 0 THEN 0
    ELSE NatOf(SubSeq(s, 1, Len(s) - 1)) * 10 + DigitVal(s[Len(s)])

RECURSIVE Split(_, _)
Split(s, c) ==
    IF \A i \in 1..Len(s) : s[i] # c THEN <<s>>
    ELSE LET p == CHOOSE i \in 1..Len(s) : s[i] = c /\ \A j \in 1..(i - 1) : s[j] # c
         IN <<SubSeq(s, 1, p - 1)>> \o Split(SubSeq(s, p + 1, Len(s)), c)

IsOctet(s) ==
    /\ AllDigits(s)
    /\ Len(s) <= 3
    /\ (Len(s) > 1 => s[1] # "0")
    /\ NatOf(s) <= 255

ParseIpAddr(s) ==
    LET parts == Split(s, ".")
    IN IF Len(parts) = 4 /\ \A i \in 1..4 : IsOctet(parts[i])
       THEN Some([i \in 1..4 |-> NatOf(parts[i])])
       ELSE None

IsPort(s) == AllDigits(s) /\ Len(s) <= 5 /\ NatOf(s) <= 65535

ParseSocketAddr(s) ==
    LET parts == Split(s, ":")
    IN IF Len(parts) = 2 /\ IsPort(parts[2])
       THEN LET ip == ParseIpAddr(parts[1])
            IN IF ip.some THEN Some([ip |-> ip.v, port |-> NatOf(parts[2])]) ELSE None
       ELSE None

\* lines 341-342: addr.parse().or_else(|_| Ok(SocketAddr::new(addr.parse()?, 9999)))
parse_address(arg) ==
    LET sock == ParseSocketAddr(arg)
    IN IF sock.some THEN sock
       ELSE LET ip == ParseIpAddr(arg)
            IN IF ip.some THEN Some([ip |-> ip.v, port |-> DefaultPort]) ELSE None

\* A faulty variant: unparsable arguments are skipped instead of ending the process.
parse_addresses_skip_bad(argv) ==
    LET good == SelectSeq(argv, LAMBDA a : parse_address(a).some)
    IN [ok |-> TRUE, addrs |-> [i \in 1..Len(good) |-> parse_address(good[i]).v],
        bad |-> <<>>]

\* lines 339-345: map(... .expect(...)).collect(); the first bad argument panics
parse_addresses(argv) ==
    IF \A i \in 1..Len(argv) : parse_address(argv[i]).some
    THEN [ok |-> TRUE, addrs |-> [i \in 1..Len(argv) |-> parse_address(argv[i]).v],
          bad |-> <<>>]
    ELSE [ok |-> FALSE, addrs |-> <<>>,
          bad |-> argv[CHOOSE i \in 1..Len(argv) :
                          /\ ~parse_address(argv[i]).some
                          /\ \A j \in 1..(i - 1) : parse_address(argv[j]).some]]

\* lines 332-337
parse_seconds(value, default) == IF AllDigits(value) THEN NatOf(value) ELSE default

\* Display of SocketAddr: "a.b.c.d:port"
AddrText(addr) ==
    Join([i \in 1..4 |-> Decimal(addr.ip[i])], <<".">>) \o <<":">> \o Decimal(addr.port)

-----------------------------------------------------------------------------
(* The devices: what an endpoint may answer to each query.  A reply is an  *)
(* input of the closure that issues the query.                             *)

Ok(v) == [ok |-> TRUE, v |-> v]
Err(e) == [ok |-> FALSE, err |-> e]

E_Timeout == <<"t", "i", "m", "e", "d", " ", "o", "u", "t">>
E_Unsupported == <<"u", "n", "s", "u", "p", "p", "o", "r", "t", "e", "d">>
NetworkError == [kind |-> "network", text |-> E_Timeout]
CapabilityError == [kind |-> "capability", text |-> E_Unsupported]

M_HS100 == <<"H", "S", "1", "0", "0", "(", "U", "S", ")">>
M_HS110 == <<"H", "S", "1", "1", "0", "(", "E", "U", ")">>
M_LB110 == <<"L", "B", "1", "1", "0", "(", "U", "S", ")">>
M_Other == <<"H", "S", "1", "0", "5", "(", "U", "S", ")">>
M_Short == <<"H", "S", "1", "0">>
M_Shifted == <<"X", "H", "S", "1", "0", "0">>
D_Alias == <<"P", "l", "u", "g", "1">>
D_DevName == <<"S", "m", "a", "r", "t", " ", "P", "l", "u", "g">>
D_Mac == <<"5", "0", ":", "C", "7", ":", "B", "F", ":", "0", "1">>
D_HwType == <<"I", "O", "T", ".", "P", "L", "U", "G">>
D_SwVer == <<"1", ".", "2", ".", "5">>
D_Mode == <<"s", "c", "h", "e", "d", "u", "l", "e">>

\* datatypes::SysInfo, the fields main.rs reads
Info(model, rssi) ==
    [alias |-> D_Alias, dev_name |-> D_DevName, model |-> model, mac |-> D_Mac,
     hw_type |-> D_HwType, sw_ver |-> D_SwVer, rssi |-> rssi, active_mode |-> D_Mode]

RssiPool == {0 - 50, 0 - 61}

\* the model of the device behind an address of the pool, by its last octet
DeviceModel(addr) ==
    CASE addr.ip[4] = 5 -> M_HS100
      [] addr.ip[4] = 6 -> M_HS110
      [] addr.ip[4] = 7 -> M_LB110
      [] OTHER -> M_Other

SysInfoReplies(addr) == {Err(NetworkError), Ok(Info(DeviceModel(addr), 0 - 50))}
OnReplies == {Err(NetworkError), Ok(TRUE), Ok(FALSE)}
LocationReplies == {Err(NetworkError), Ok(<<51, 0>>)}
RebootReplies == {Err(NetworkError), Ok(TRUE)}

\* a request put on the wire to an endpoint
Op(name, arg) == [op |-> name, arg |-> arg]

-----------------------------------------------------------------------------
(* device_from_addr (lines 59-81)                                          *)

\* A faulty variant: the HS110 rule tests the wrong prefix and never matches.
DeviceKindNoHS110(model) ==
    IF starts_with(model, T_HS100) THEN "HS100"
    ELSE IF starts_with(model, T_LB110) THEN "LB110"
    ELSE "Unknown"

\* lines 64-78: the chain of starts_with tests
DeviceKind(model) ==
    IF starts_with(model, T_HS100) THEN "HS100"
    ELSE IF starts_with(model, T_HS110) THEN "HS110"
    ELSE IF starts_with(model, T_LB110) THEN "LB110"
    ELSE "Unknown"

NoDevice == [kind |-> "none"]
NoInfo == [none |-> TRUE]

device_from_addr(addr, reply1, reply2) ==
    IF ~reply1.ok
    THEN [ok |-> FALSE, err |-> reply1.err, addr |-> addr, dev |-> NoDevice,
          info |-> NoInfo, sent |-> <<Op("sysinfo", 0)>>]
    ELSE LET kind == DeviceKind(reply1.v.model)
         IN IF kind = "Unknown"
            THEN [ok |-> TRUE, err |-> NetworkError, addr |-> addr,
                  dev |-> [kind |-> "Unknown"], info |-> reply1.v,
                  sent |-> <<Op("sysinfo", 0)>>]
            ELSE IF ~reply2.ok
            THEN [ok |-> FALSE, err |-> reply2.err, addr |-> addr, dev |-> NoDevice,
                  info |-> NoInfo, sent |-> <<Op("sysinfo", 0), Op("sysinfo", 0)>>]
            ELSE [ok |-> TRUE, err |-> NetworkError, addr |-> addr,
                  dev |-> [kind |-> kind],
                  info |-> reply2.v,
                  sent |-> <<Op("sysinfo", 0), Op("sysinfo", 0)>>]

-----------------------------------------------------------------------------
(* Capabilities of a handle.                                               *)

Recognized(dev) == dev.kind \in {"HS100", "HS110", "LB110"}

\* A faulty variant: the on/off query is sent to every handle.
device_is_on_any_kind(device, onReply) ==
    [value |-> IF onReply.ok THEN Some(onReply.v) ELSE None,
     sent |-> <<Op("is_on", 0)>>]

\* lines 88-95
device_is_on(device, onReply) ==
    IF Recognized(device)
    THEN [value |-> IF onReply.ok THEN Some(onReply.v) ELSE None,
          sent |-> <<Op("is_on", 0)>>]
    ELSE [value |-> None, sent |-> <<>>]

\* Device::location: geolocation is a capability of recognized kinds only
location(device, locReply) ==
    IF Recognized(device)
    THEN [ok |-> locReply.ok,
          v |-> IF locReply.ok THEN locReply.v ELSE <<0, 0>>,
          sent |-> <<Op("location", 0)>>]
    ELSE [ok |-> FALSE, v |-> <<0, 0>>, sent |-> <<>>]

\* Device::reboot_with_delay: an action is a capability of recognized kinds only
reboot_with_delay(device, delay, rebootReply) ==
    IF Recognized(device)
    THEN [ok |-> rebootReply.ok,
          err |-> IF rebootReply.ok THEN NetworkError ELSE rebootReply.err,
          sent |-> <<Op("reboot", delay)>>]
    ELSE [ok |-> FALSE, err |-> CapabilityError, sent |-> <<>>]

-----------------------------------------------------------------------------
(* Format::device, Format::status, Format::actioned (lines 172-275)        *)

K_alias == <<"a", "l", "i", "a", "s">>
K_dev_name == <<"d", "e", "v", "_", "n", "a", "m", "e">>
K_model == <<"m", "o", "d", "e", "l">>
K_mac == <<"m", "a", "c">>
K_hw_type == <<"h", "w", "_", "t", "y", "p", "e">>
K_sw_ver == <<"s", "w", "_", "v", "e", "r">>
K_rssi == <<"r", "s", "s", "i">>
K_active_mode == <<"a", "c", "t", "i", "v", "e", "_", "m", "o", "d", "e">>

\* lines 267-274
DeviceTag(device) ==
    CASE device.kind = "HS100" -> T_HS100
      [] device.kind = "HS110" -> T_HS110
      [] device.kind = "LB110" -> T_LB110
      [] OTHER -> T_unknown

\* Serialize for SysInfo
SysInfoJson(sysinfo) ==
    VObj(<<<<K_alias, VStr(sysinfo.alias)>>, <<K_dev_name, VStr(sysinfo.dev_name)>>,
           <<K_model, VStr(sysinfo.model)>>, <<K_mac, VStr(sysinfo.mac)>>,
           <<K_hw_type, VStr(sysinfo.hw_type)>>, <<K_sw_ver, VStr(sysinfo.sw_ver)>>,
           <<K_rssi, VNum(sysinfo.rssi)>>, <<K_active_mode, VStr(sysinfo.active_mode)>>>>)

SignalText(rssi) == Decimal(rssi) \o T_dB

OptBool(opt) == IF opt.some THEN VBool(opt.v) ELSE VNull

\* lines 183-228; json! evaluates its elements in order, so in the Long form
\* the location query precedes the on/off query
status(fmt, addr, device, sysinfo, onReply, locReply) ==
    LET on == device_is_on(device, onReply)
        loc == location(device, locReply)
    IN CASE fmt = "Short" ->
              [value |-> VArr(<<Pair(L_Address, VStr(AddrText(addr))),
                                Pair(L_Alias, VStr(sysinfo.alias)),
                                Pair(L_Product, VStr(sysinfo.dev_name)),
                                Pair(L_Model, VStr(sysinfo.model)),
                                Pair(L_Signal, VStr(SignalText(sysinfo.rssi))),
                                Pair(L_On, OptBool(on.value))>>),
               sent |-> on.sent]
         [] fmt = "Long" ->
              [value |-> VArr(<<Pair(L_Address, VStr(AddrText(addr))),
                                Pair(L_MAC, VStr(sysinfo.mac)),
                                Pair(L_Alias, VStr(sysinfo.alias)),
                                Pair(L_Product, VStr(sysinfo.dev_name)),
                                Pair(L_Type, VStr(sysinfo.hw_type)),
                                Pair(L_Model, VStr(sysinfo.model)),
                                Pair(L_Version, VStr(sysinfo.sw_ver)),
                                Pair(L_Signal, VStr(SignalText(sysinfo.rssi))),
                                Pair(L_Latitude, IF loc.ok THEN VFloat(loc.v[1]) ELSE VNull),
                                Pair(L_Longitude, IF loc.ok THEN VFloat(loc.v[2]) ELSE VNull),
                                Pair(L_Mode, VStr(sysinfo.active_mode)),
                                Pair(L_On, OptBool(on.value))>>),
               sent |-> loc.sent \o on.sent]
         [] OTHER ->
              [value |-> VObj(<<<<K_addr, VStr(AddrText(addr))>>,
                                <<K_data, VObj(<<<<K_location,
                                                   IF loc.ok
                                                   THEN VArr(<<VFloat(loc.v[1]), VFloat(loc.v[2])>>)
                                                   ELSE VNull>>,
                                                 <<K_system, SysInfoJson(sysinfo)>>>>)>>,
                                <<K_device, VStr(DeviceTag(device))>>>>),
               sent |-> loc.sent]

\* lines 230-265
actioned(fmt, addr, device, sysinfo, action, result) ==
    CASE fmt = "Short" ->
           VArr(<<Pair(L_Address, VStr(AddrText(addr))),
                  Pair(L_Alias, VStr(sysinfo.alias)),
                  Pair(L_Product, VStr(sysinfo.dev_name)),
                  Pair(L_Model, VStr(sysinfo.model)),
                  Pair(action, result)>>)
      [] fmt = "Long" ->
           VArr(<<Pair(L_Address, VStr(AddrText(addr))),
                  Pair(L_MAC, VStr(sysinfo.mac)),
                  Pair(L_Alias, VStr(sysinfo.alias)),
                  Pair(L_Product, VStr(sysinfo.dev_name)),
                  Pair(L_Type, VStr(sysinfo.hw_type)),
                  Pair(L_Model, VStr(sysinfo.model)),
                  Pair(L_Version, VStr(sysinfo.sw_ver)),
                  Pair(action, result)>>)
      [] OTHER ->
           VObj(<<<<K_actioned, VObj(<<<<K_action, VStr(action)>>, <<K_result, result>>>>)>>,
                  <<K_addr, VStr(AddrText(addr))>>,
                  <<K_data, VObj(<<<<K_system, SysInfoJson(sysinfo)>>>>)>>,
                  <<K_device, VStr(DeviceTag(device))>>>>)

\* lines 49-51: .map(|_| Value::Bool(true)).unwrap_or_else(|err| "Error: {err}")
RebootResult(r) == IF r.ok THEN VBool(TRUE) ELSE VStr(T_ErrorPrefix \o r.err.text)
-----------------------------------------------------------------------------
(* The closure of command_status / command_reboot for one address, and the *)
(* values a specification leaves alone.                                    *)

PendingTask ==
    [st |-> "pending", sent |-> <<>>, resolved |-> FALSE, dev |-> NoDevice,
     info |-> NoInfo, acted |-> "none", row |-> None]

ResolveIdle == [pc |-> "idle"]

Formats == {"Short", "Long", "JSON"}

-----------------------------------------------------------------------------
(* Rows handed to the renderer specification.                              *)

L_Id == <<"I", "d">>
L_Tags == <<"T", "a", "g", "s">>
T_Plug1 == <<"P", "l", "u", "g", "1">>
T_Plug2 == <<"P", "l", "u", "g", "2">>
T_P == <<"P">>
T_Addr5 == <<"1", "0", ".", "0", ".", "0", ".", "5", ":", "9", "9", "9", "9">>
T_Addr6 == <<"1", "0", ".", "0", ".", "0", ".", "6", ":", "9", "9", "9", "9">>

Row1 == VArr(<<Pair(L_Address, VStr(T_Addr5)), Pair(L_Alias, VStr(T_Plug1)),
               Pair(L_On, VBool(TRUE))>>)
Row2 == VArr(<<Pair(L_Address, VStr(T_Addr6)), Pair(L_Alias, VStr(T_Plug2)),
               Pair(L_On, VNull)>>)
RowOnNull == VArr(<<Pair(L_On, VNull)>>)
RowAliasOnly == VArr(<<Pair(L_Alias, VStr(T_Plug1))>>)
RowRepeat == VArr(<<Pair(L_On, VBool(FALSE)), Pair(L_Alias, VStr(T_P)),
                    Pair(L_On, VBool(TRUE))>>)
RowIdTags == VArr(<<Pair(L_Id, VNum(7)),
                    Pair(L_Tags, VArr(<<VBool(FALSE), VNum(12)>>))>>)
RowShortField == VArr(<<VArr(<<VStr(L_Alias)>>), Pair(L_On, VBool(TRUE))>>)
RowEmpty == VArr(<<>>)
RowObject == VObj(<<<<K_addr, VStr(T_Addr5)>>>>)
RowNumKey == VArr(<<VArr(<<VNum(7), VNull>>)>>)
RowBareField == VArr(<<VStr(T_P)>>)
RowNested == VArr(<<Pair(L_Id, VObj(<<<<K_data, VFloat(51)>>>>))>>)

RowPool == {Row1, Row2, RowOnNull, RowAliasOnly, RowRepeat, RowIdTags, RowShortField,
            RowEmpty, RowObject, RowNumKey, RowBareField, RowNested}

RowCollections == UNION {[1..n -> RowPool] : n \in 0..MaxRows}

-----------------------------------------------------------------------------
(* The renderer specification: Format::output on an arbitrary row          *)
(* collection, one loop iteration per step.                                *)

InitRender ==
    /\ format \in Formats
    /\ rows \in RowCollections
    /\ rpc = "scan"
    /\ fields = EmptyMap
    /\ processed = <<>>
    /\ columns = <<>>
    /\ lines = <<>>
    /\ stdout = <<>>
    /\ panic = NoPanic
    /\ command = "none"
    /\ args = <<>>
    /\ delayArg = <<>>
    /\ pc = "idle"
    /\ addresses = <<>>
    /\ tasks = <<>>
    /\ stderr = <<>>
    /\ resolve = ResolveIdle

\* line 120: Format::JSON => stringify(&rows).unwrap()
OutputJson ==
    /\ rpc = "scan"
    /\ format = "JSON"
    /\ stdout' = Append(stdout, JsonStringify(VArr(rows)))
    /\ rpc' = "done"
    /\ UNCHANGED <<format, rows, fields, processed, columns, lines, panic, mainVars>>

\* lines 126-146: one iteration of `for row in rows`
OutputScanRow ==
    /\ rpc = "scan"
    /\ Tabular(format)
    /\ Len(processed) < Len(rows)
    /\ LET r == ScanRow(fields, rows[Len(processed) + 1])
       IN /\ fields' = r.fields
          /\ panic' = r.panic
          /\ processed' = IF r.panic = NoPanic THEN Append(processed, r.proc) ELSE processed
          /\ rpc' = IF r.panic = NoPanic THEN "scan" ELSE "panic"
    /\ UNCHANGED <<format, rows, columns, lines, stdout, mainVars>>

\* lines 148-159: sort the columns, push the header and the separator
OutputHeader ==
    /\ rpc = "scan"
    /\ Tabular(format)
    /\ Len(processed) = Len(rows)
    /\ columns' = SortFields(fields)
    /\ lines' = <<HeaderLine(columns'), SeparatorLine(columns')>>
    /\ rpc' = "rows"
    /\ UNCHANGED <<format, rows, fields, processed, stdout, panic, mainVars>>

\* lines 161-165: one row of lines.extend(...)
OutputRowLine ==
    /\ rpc = "rows"
    /\ Len(lines) < Len(processed) + 2
    /\ LET proc == processed[Len(lines) - 1]
       IN IF RowHasAll(proc, columns)
          THEN /\ lines' = Append(lines, RowLine(proc, columns))
               /\ UNCHANGED <<rpc, panic>>
          ELSE /\ rpc' = "panic"
               /\ panic' = "unwrap on None"
               /\ UNCHANGED lines
    /\ UNCHANGED <<format, rows, fields, processed, columns, stdout, mainVars>>

\* lines 119, 167: println!("{}", lines.join("\n"))
OutputPrint ==
    /\ rpc = "rows"
    /\ Len(lines) = Len(processed) + 2
    /\ stdout' = Append(stdout, Join(lines, T_Newline))
    /\ rpc' = "done"
    /\ UNCHANGED <<format, rows, fields, processed, columns, lines, panic, mainVars>>

NextRender ==
    \/ OutputJson
    \/ OutputScanRow
    \/ OutputHeader
    \/ OutputRowLine
    \/ OutputPrint

SpecRender == InitRender /\ [][NextRender]_vars

-----------------------------------------------------------------------------
(* main, command_status and command_reboot: one invocation of `status` or  *)
(* `reboot`.  Each address is one rayon task; a task runs its closure in   *)
(* one step, with the replies of its endpoint as inputs.                   *)

A_5 == <<"1", "0", ".", "0", ".", "0", ".", "5", ":", "9", "9", "9", "9">>
A_7 == <<"1", "0", ".", "0", ".", "0", ".", "7", ":", "8", "0">>
A_8 == <<"1", "0", ".", "0", ".", "0", ".", "8">>
A_BadHost == <<"p", "l", "u", "g", ".", "l", "o", "c", "a", "l">>
A_BadPort == <<"1", "0", ".", "0", ".", "0", ".", "5", ":", "h", "t", "t", "p">>
D_Soon == <<"s", "o", "o", "n">>

ArgPool == {A_5, A_7, A_8, A_BadHost, A_BadPort}
D_Five == <<"5">>
DelayPool == {D_Five, D_Soon}

\* A faulty variant: a failed endpoint leaves no trace on the error stream.
DiagnoseNothing(stream, addr, err) == stream

\* lines 39, 54: eprintln!("While querying {}: {}", addr, err)
Diagnose(stream, addr, err) ==
    Append(stream, [kind |-> "query", addr |-> addr, err |-> err])

\* A faulty variant: an endpoint that produced no row is kept as a null placeholder.
CollectedWithPlaceholders(ts) ==
    [i \in 1..Len(ts) |-> IF ts[i].row.some THEN ts[i].row.v ELSE VNull]

\* lines 36-41, 46-56: filter_map(... .ok()).collect(), in the order of the input
Collected(ts) ==
    LET kept == SelectSeq(ts, LAMBDA t : t.row.some)
    IN [i \in 1..Len(kept) |-> kept[i].row.v]

\* A faulty variant: the result is rendered as soon as one task has finished.
AllDoneAfterFirst(ts) == \E i \in 1..Len(ts) : ts[i].st = "done"

\* collect() returns when every task of the parallel iterator has finished
AllDone(ts) == \A i \in 1..Len(ts) : ts[i].st = "done"

Init ==
    /\ command \in {"status", "reboot"}
    /\ format \in Formats
    /\ args \in UNION {[1..n -> ArgPool] : n \in 1..MaxAddrs}
    /\ delayArg \in DelayPool \cup {<<>>}
    /\ (command = "status" => delayArg = <<>>)
    /\ (command = "reboot" => delayArg \in DelayPool)
    /\ pc = "start"
    /\ addresses = <<>>
    /\ tasks = <<>>
    /\ stderr = <<>>
    /\ stdout = <<>>
    /\ panic = NoPanic
    /\ rows = <<>>
    /\ rpc = "idle"
    /\ fields = EmptyMap
    /\ processed = <<>>
    /\ columns = <<>>
    /\ lines = <<>>
    /\ resolve = ResolveIdle

\* lines 357, 360: parse_addresses(&matches), evaluated before the command runs
ParseAddresses ==
    /\ pc = "start"
    /\ LET parsed == parse_addresses(args)
       IN IF parsed.ok
          THEN /\ addresses' = parsed.addrs
               /\ tasks' = [i \in 1..Len(parsed.addrs) |-> PendingTask]
               /\ pc' = "fanout"
               /\ UNCHANGED <<stderr, panic>>
          ELSE /\ panic' = "not a valid address"
               /\ stderr' = Append(stderr, [kind |-> "panic", text |-> parsed.bad])
               /\ pc' = "panicked"
               /\ UNCHANGED <<addresses, tasks>>
    /\ UNCHANGED <<command, format, args, delayArg, stdout, resolve, renderVars>>

\* A reply is drawn only for a query that is put on the wire: the replies
\* of a query the closure never sends are not inputs of the step.
Asked(replies, sent, name, nth) ==
    IF Len(SelectSeq(sent, LAMBDA o : o.op = name)) >= nth
    THEN replies
    ELSE {CHOOSE x \in replies : TRUE}

\* lines 36-40: the closure of command_status on addresses[i]
TaskStatus(i) ==
    /\ pc = "fanout"
    /\ command = "status"
    /\ tasks[i].st = "pending"
    /\ \E reply1 \in SysInfoReplies(addresses[i]) :
       \E reply2 \in Asked(SysInfoReplies(addresses[i]),
                           device_from_addr(addresses[i], reply1, reply1).sent,
                           "sysinfo", 2) :
          LET r == device_from_addr(addresses[i], reply1, reply2)
              asks == IF r.ok
                      THEN status(format, r.addr, r.dev, r.info,
                                  Err(NetworkError), Err(NetworkError)).sent
                      ELSE <<>>
          IN \E onReply \in Asked(OnReplies, asks, "is_on", 1),
                locReply \in Asked(LocationReplies, asks, "location", 1) :
                LET shaped == status(format, r.addr, r.dev, r.info, onReply, locReply)
                IN IF r.ok
                   THEN /\ tasks' = [tasks EXCEPT ![i] =
                                        [st |-> "done", sent |-> r.sent \o shaped.sent,
                                         resolved |-> TRUE, dev |-> r.dev, info |-> r.info,
                                         acted |-> "none", row |-> Some(shaped.value)]]
                        /\ stderr' = stderr
                   ELSE /\ tasks' = [tasks EXCEPT ![i] =
                                        [PendingTask EXCEPT !.st = "done", !.sent = r.sent]]
                        /\ stderr' = Diagnose(stderr, addresses[i], r.err)
    /\ UNCHANGED <<command, format, args, delayArg, pc, addresses, stdout, panic,
                   resolve, renderVars>>

\* lines 46-55: the closure of command_reboot on addresses[i]
TaskReboot(i) ==
    /\ pc = "fanout"
    /\ command = "reboot"
    /\ tasks[i].st = "pending"
    /\ \E reply1 \in SysInfoReplies(addresses[i]) :
       \E reply2 \in Asked(SysInfoReplies(addresses[i]),
                           device_from_addr(addresses[i], reply1, reply1).sent,
                           "sysinfo", 2) :
          LET r == device_from_addr(addresses[i], reply1, reply2)
              delay == parse_seconds(delayArg, 1)
              asks == IF r.ok
                      THEN reboot_with_delay(r.dev, delay, Err(NetworkError)).sent
                      ELSE <<>>
          IN \E rebootReply \in Asked(RebootReplies, asks, "reboot", 1) :
                LET rb == reboot_with_delay(r.dev, delay, rebootReply)
                    row == actioned(format, r.addr, r.dev, r.info, L_Rebooted,
                                    RebootResult(rb))
                IN IF r.ok
                   THEN /\ tasks' = [tasks EXCEPT ![i] =
                                        [st |-> "done", sent |-> r.sent \o rb.sent,
                                         resolved |-> TRUE, dev |-> r.dev, info |-> r.info,
                                         acted |-> IF rb.ok THEN "ok" ELSE rb.err.kind,
                                         row |-> Some(row)]]
                        /\ stderr' = stderr
                   ELSE /\ tasks' = [tasks EXCEPT ![i] =
                                        [PendingTask EXCEPT !.st = "done", !.sent = r.sent]]
                        /\ stderr' = Diagnose(stderr, addresses[i], r.err)
    /\ UNCHANGED <<command, format, args, delayArg, pc, addresses, stdout, panic,
                   resolve, renderVars>>

\* line 347: format.output(<the collected rows>)
PrintResult ==
    /\ pc = "fanout"
    /\ AllDone(tasks)
    /\ LET r == output(format, Collected(tasks))
       IN IF r.panic = NoPanic
          THEN /\ stdout' = Append(stdout, r.text)
               /\ pc' = "done"
               /\ UNCHANGED panic
          ELSE /\ panic' = r.panic
               /\ pc' = "panicked"
               /\ UNCHANGED stdout
    /\ UNCHANGED <<command, format, args, delayArg, addresses, tasks, stderr,
                   resolve, renderVars>>

Next ==
    \/ ParseAddresses
    \/ \E i \in 1..Len(tasks) : TaskStatus(i)
    \/ \E i \in 1..Len(tasks) : TaskReboot(i)
    \/ PrintResult

Spec == Init /\ [][Next]_vars

-----------------------------------------------------------------------------
(* The resolver specification: device_from_addr on one endpoint, for every *)
(* pair of replies of a pool that also holds near-miss model strings.      *)

ModelPool == {M_HS100, M_HS110, M_LB110, M_Other, M_Short, M_Shifted}

ResolveReplies ==
    {Err(NetworkError)} \cup {Ok(Info(m, r)) : m \in ModelPool, r \in RssiPool}

ResolveAddrs == {parse_address(A_5).v, parse_address(A_8).v}

NoResult == [ok |-> FALSE, pending |-> TRUE]

InitResolve ==
    /\ resolve \in [pc : {"call"}, addr : ResolveAddrs, reply1 : ResolveReplies,
                    reply2 : ResolveReplies, out : {NoResult}]
    /\ command = "none"
    /\ format = "Short"
    /\ args = <<>>
    /\ delayArg = <<>>
    /\ pc = "idle"
    /\ addresses = <<>>
    /\ tasks = <<>>
    /\ stderr = <<>>
    /\ stdout = <<>>
    /\ panic = NoPanic
    /\ rows = <<>>
    /\ rpc = "idle"
    /\ fields = EmptyMap
    /\ processed = <<>>
    /\ columns = <<>>
    /\ lines = <<>>

Resolve ==
    /\ resolve.pc = "call"
    /\ resolve' = [resolve EXCEPT
                       !.pc = "returned",
                       !.out = device_from_addr(resolve.addr, resolve.reply1, resolve.reply2)]
    /\ UNCHANGED <<command, format, args, delayArg, pc, addresses, tasks, stderr,
                   stdout, panic, renderVars>>

NextResolve == Resolve

SpecResolve == InitResolve /\ [][NextResolve]_vars

-----------------------------------------------------------------------------
(* Properties of the fan-out (specification Spec).                         *)

N == Len(addresses)

FailedResolution(i) == tasks[i].st = "done" /\ ~tasks[i].resolved

FailedAction(i) == tasks[i].st = "done" /\ tasks[i].acted \notin {"none", "ok"}

RECURSIVE ContainsErrorText(_)
ContainsErrorText(v) ==
    CASE v.t = "str" -> starts_with(v.s, T_ErrorPrefix)
      [] v.t = "arr" -> \E k \in 1..Len(v.a) : ContainsErrorText(v.a[k])
      [] v.t = "obj" -> \E k \in 1..Len(v.o) : ContainsErrorText(v.o[k][2])
      [] OTHER -> FALSE

IsPlaceholderOrErrorRow(v) == v.t = "null" \/ ContainsErrorText(v)

Returned == Collected(tasks)

DiagnosticsFor(addr) ==
    Len(SelectSeq(stderr, LAMBDA e : e.kind = "query" /\ e.addr = addr))

\* C1, as stated: with M the number of endpoints that fail resolution or
\* fail the reboot action, the returned collection has exactly N - M
\* elements and none of them is a placeholder or error row.
C1_DropsEveryFailure ==
    pc = "done" =>
        /\ Len(Returned) =
              N - Cardinality({i \in 1..N : FailedResolution(i) \/ FailedAction(i)})
        /\ \A k \in 1..Len(Returned) : ~IsPlaceholderOrErrorRow(Returned[k])

\* C1, amended: with R the number of endpoints that fail resolution, the
\* returned collection has exactly N - R elements, one per resolved
\* endpoint and none a placeholder; a row carries an "Error: ..." text
\* exactly when the reboot action of its endpoint failed.
C1_DropsResolutionFailures ==
    pc = "done" =>
        /\ Len(Returned) = N - Cardinality({i \in 1..N : FailedResolution(i)})
        /\ \A k \in 1..Len(Returned) : Returned[k].t # "null"
        /\ \A i \in 1..N :
              /\ tasks[i].row.some <=> ~FailedResolution(i)
              /\ tasks[i].row.some =>
                    (ContainsErrorText(tasks[i].row.v) <=> FailedAction(i))

C1_Witness ==
    /\ pc = "done"
    /\ command = "reboot"
    /\ N >= 2
    /\ \E i \in 1..N : FailedResolution(i)
    /\ \E i \in 1..N : FailedAction(i)

\* C2, as stated: an endpoint is in the returned collection iff its own
\* resolution and operation succeeded, and every endpoint that failed
\* either is written exactly once to the error stream under its address.
C2_EveryFailureDiagnosed ==
    pc \in {"fanout", "done"} =>
        /\ \A i \in 1..N :
              tasks[i].st = "done" =>
                 (tasks[i].row.some <=> ~(FailedResolution(i) \/ FailedAction(i)))
        /\ \A i \in 1..N :
              DiagnosticsFor(addresses[i]) =
                 Cardinality({j \in 1..N : /\ addresses[j] = addresses[i]
                                           /\ (FailedResolution(j) \/ FailedAction(j))})

\* C2, amended: under every interleaving of the tasks, an endpoint is in
\* the returned collection iff its own resolution succeeded (a failed
\* reboot action keeps the endpoint, with the error text in its row, and
\* writes no diagnostic); every endpoint whose resolution failed is written
\* exactly once to the error stream under its address and is absent from
\* the collection; and a finished task, failed or not, leaves every
\* pending sibling able to run.
C2_ResolutionFailureIsolated ==
    pc \in {"fanout", "done"} =>
        /\ \A i \in 1..N :
              /\ tasks[i].st = "pending" => ~tasks[i].row.some
              /\ tasks[i].st = "done" => (tasks[i].row.some <=> tasks[i].resolved)
              /\ (pc = "fanout" /\ tasks[i].st = "pending") =>
                    ENABLED (TaskStatus(i) \/ TaskReboot(i))
        /\ \A i \in 1..N :
              DiagnosticsFor(addresses[i]) =
                 Cardinality({j \in 1..N : /\ addresses[j] = addresses[i]
                                           /\ FailedResolution(j)})
        /\ Len(stderr) = Cardinality({j \in 1..N : FailedResolution(j)})

C2_Witness ==
    /\ pc = "fanout"
    /\ command = "reboot"
    /\ N >= 2
    /\ \E i, j \in 1..N :
          /\ FailedResolution(i)
          /\ DiagnosticsFor(addresses[i]) = 1
          /\ tasks[j].st = "done"
          /\ tasks[j].row.some
          /\ FailedAction(j)

\* C3: with well-formed addresses the invocation never panics and the
\* result document is printed exactly once, in the step that finds every
\* task finished; every diagnostic is written before that step and none
\* after it, however many endpoints fail.
C3_PrintedOnceAfterAllTasks ==
    /\ [](pc = "done" <=> Len(stdout) = 1)
    /\ [](Len(stdout) <= 1)
    /\ []((\A k \in 1..Len(args) : parse_address(args[k]).some) =>
             /\ panic = NoPanic
             /\ pc \in {"start", "fanout", "done"})
    /\ [][/\ stdout' # stdout =>
                /\ stdout = <<>>
                /\ \A i \in 1..Len(tasks) : tasks[i].st = "done"
                /\ Len(tasks) = Len(args)
                /\ stderr' = stderr
          /\ stdout # <<>> => stderr' = stderr]_vars

C3_Witness ==
    /\ pc = "done"
    /\ Len(stdout) = 1
    /\ Len(stderr) >= 1
    /\ \E i \in 1..N : FailedResolution(i)
    /\ \E i \in 1..N : tasks[i].row.some

\* C4: if any address argument is unparsable, the invocation ends in the
\* panic of parse_addresses: no task is created, so no query or action is
\* sent to any endpoint, and nothing is rendered.
C4_BadAddressIsFatalBeforeNetwork ==
    (\E k \in 1..Len(args) : ~parse_address(args[k]).some) =>
        /\ pc \in {"start", "panicked"}
        /\ tasks = <<>>
        /\ addresses = <<>>
        /\ stdout = <<>>
        /\ pc = "panicked" => panic = "not a valid address"

C4_Witness ==
    /\ pc = "panicked"
    /\ Len(args) >= 2
    /\ parse_address(args[1]).some
    /\ ~parse_address(args[Len(args)]).some

KnownPrefixes == {T_HS100, T_HS110, T_LB110}

MatchesNoPrefix(model) == \A p \in KnownPrefixes : ~starts_with(model, p)

PairValue(row, label) ==
    LET k == CHOOSE k \in 1..Len(row.a) : row.a[k].a[1] = VStr(label)
    IN row.a[k].a[2]

-----------------------------------------------------------------------------
(* Properties of the resolver (specification SpecResolve).                 *)

PrefixRules == <<<<T_HS100, "HS100">>, <<T_HS110, "HS110">>, <<T_LB110, "LB110">>>>

RECURSIVE FirstMatch(_, _)
FirstMatch(model, k) ==
    IF k > Len(PrefixRules) THEN "Unknown"
    ELSE IF starts_with(model, PrefixRules[k][1]) THEN PrefixRules[k][2]
    ELSE FirstMatch(model, k + 1)

\* C10: the kind is that of the first matching prefix rule in the order
\* HS100, HS110, LB110, else Unknown; a recognized kind is queried again
\* and the second reply is the SysInfo returned; an error at the probe or
\* at the second query is returned with no handle.
C10_FirstMatchAndRequery ==
    resolve.pc = "returned" =>
        LET o == resolve.out
            r1 == resolve.reply1
            r2 == resolve.reply2
        IN IF ~r1.ok
           THEN ~o.ok /\ o.err = r1.err /\ o.dev = NoDevice /\ Len(o.sent) = 1
           ELSE IF FirstMatch(r1.v.model, 1) = "Unknown"
           THEN /\ o.ok
                /\ o.dev.kind = "Unknown"
                /\ o.info = r1.v
                /\ Len(o.sent) = 1
           ELSE IF ~r2.ok
           THEN ~o.ok /\ o.err = r2.err /\ o.dev = NoDevice /\ Len(o.sent) = 2
           ELSE /\ o.ok
                /\ o.dev.kind = FirstMatch(r1.v.model, 1)
                /\ o.info = r2.v
                /\ o.addr = resolve.addr
                /\ Len(o.sent) = 2

C10_Witness ==
    /\ resolve.pc = "returned"
    /\ resolve.out.ok
    /\ resolve.out.dev.kind = "HS110"
    /\ resolve.reply1.v # resolve.reply2.v
    /\ resolve.out.info = resolve.reply2.v

-----------------------------------------------------------------------------
(* Properties of the renderer (specification SpecRender).                  *)

\* the titles of the well-formed pairs of a row, in row order
RowLabels(row) ==
    LET pairs == SelectSeq(row.a, LAMBDA f : Len(f.a) = 2)
    IN [k \in 1..Len(pairs) |-> pairs[k].a[1].s]

RECURSIVE AllLabels(_, _)
AllLabels(rs, k) == IF k > Len(rs) THEN <<>> ELSE RowLabels(rs[k]) \o AllLabels(rs, k + 1)

RECURSIVE FirstOccurrences(_)
FirstOccurrences(labels) ==
    IF Len(labels) = 0 THEN <<>>
    ELSE LET front == FirstOccurrences(SubSeq(labels, 1, Len(labels) - 1))
             last == labels[Len(labels)]
         IN IF \E k \in 1..Len(front) : front[k] = last THEN front
            ELSE Append(front, last)

HeaderBuilt == Tabular(format) /\ Len(lines) >= 2

ColumnNames == [k \in 1..Len(columns) |-> columns[k].name]

\* C5: in tabular mode the columns, and so the cells of the header line,
\* are in the order in which the titles first occur, scanning the rows in
\* the order given and the pairs of a row in row order.
C5_ColumnOrderIsFirstOccurrence ==
    HeaderBuilt =>
        /\ ColumnNames = FirstOccurrences(AllLabels(rows, 1))
        /\ lines[1] = T_Space
                      \o Join([k \in 1..Len(columns) |->
                                  pad(FirstOccurrences(AllLabels(rows, 1))[k],
                                      columns[k].width)], T_Sep)
                      \o T_Space

C5_Witness ==
    /\ HeaderBuilt
    /\ rows = <<RowRepeat, RowAliasOnly, RowIdTags>>
    /\ ColumnNames = <<L_On, L_Alias, L_Id, L_Tags>>

\* the rendered values a row places under a title
ValuesUnder(row, label) ==
    LET pairs == SelectSeq(row.a, LAMBDA f : Len(f.a) = 2 /\ f.a[1].s = label)
    IN {human_stringify(pairs[k].a[2]) : k \in 1..Len(pairs)}

MaxOf(S) == CHOOSE m \in S : \A x \in S : x <= m

C7_MissingLabelGetsFiller ==
    /\ panic # "unwrap on None"
    /\ (rpc = "done" /\ Tabular(format)) => Len(lines) = Len(rows) + 2

\* C9, as stated: the two example rows give the columns Address, Alias, On?
\* with the widths 14, 5, 4, and the On? cell of Row2 is "-".
C9_ExampleWidths14 ==
    (rows = <<Row1, Row2>> /\ Tabular(format) /\ rpc = "done") =>
        /\ columns = <<[name |-> L_Address, width |-> 14],
                       [name |-> L_Alias, width |-> 5],
                       [name |-> L_On, width |-> 4]>>
        /\ processed[2][L_On] = T_dash

\* C9, amended: the widths are 13, 5, 4 ("10.0.0.6:9999" has 13
\* characters); the order Address, Alias, On? and the "-" of Row2 stand.
C9_ExampleWidths13 ==
    (rows = <<Row1, Row2>> /\ Tabular(format) /\ rpc = "done") =>
        /\ columns = <<[name |-> L_Address, width |-> 13],
                       [name |-> L_Alias, width |-> 5],
                       [name |-> L_On, width |-> 4]>>
        /\ processed[2][L_On] = T_dash
        /\ lines[4] = <<" ">> \o T_Addr6 \o T_Sep \o T_Plug2 \o T_Sep
                      \o <<"-", " ", " ", " ", " ">>

C9_Witness ==
    /\ rows = <<Row1, Row2>>
    /\ Tabular(format)
    /\ rpc = "done"
    /\ Len(stdout) = 1

====
